---- MODULE Spec2Model ----
(***************************************************************************)
(* Model of chunked_spleeter.py: the early virtual-environment relaunch    *)
(* (maybe_reexec_in_venv) and the orchestration in main (probe, plan,      *)
(* per-chunk separation, two concatenations, scoped temp-dir cleanup).     *)
(*                                                                         *)
(* Durations are exact rationals: total_sec counts units of 1/Scale        *)
(* second.  chunk is a whole number of seconds (argparse type=int).  For   *)
(* an integer divisor the correctly rounded float quotient never crosses   *)
(* an integer, so math.ceil of the float equals the exact ceiling.         *)
(***************************************************************************)
EXTENDS Integers, Sequences, FiniteSets, TLC

VARIABLES
    \* ---- main() ----
    pc,            \* position of main
    chunk,         \* args.chunk
    keep_temp,     \* args.keep_temp
    input_exists,  \* in_path.exists()
    total_sec,     \* probed duration, in units of 1/Scale s
    n_chunks,      \* math.ceil(total_sec / args.chunk)
    idx,           \* loop variable of the chunk loop
    vocal_parts,   \* list of foreground stem paths
    accomp_parts,  \* list of background stem paths
    tmp,           \* the temporary tree: [root, dirs, files]
    tmp_created,   \* history: the with-block was entered
    out_dir,       \* files of the output directory: name -> content
    out_dir0,      \* history: out_dir as it was before the run
    log,           \* history: external commands run so far, with exit status
    exit_code,     \* process exit status (-1 while running)
    fail,          \* why the run failed ("none" while it has not)
    \* ---- maybe_reexec_in_venv() and the launch of the process ----
    vpc,           \* position of the start-up code
    argv,          \* sys.argv
    args_venv,     \* args.venv (<<>> is None)
    environ,       \* os.environ.get("VIRTUAL_ENV") (<<>> is None)
    venv_exists,   \* venv_dir.exists()
    python_exists, \* an interpreter exists under venv_dir
    execs,         \* history: number of os.execv calls so far
    rest,          \* history: the command line without the venv option
    pos,           \* history: where the venv option was put in rest
    form           \* history: which form of the venv option was used

mainVars == <<pc, chunk, keep_temp, input_exists, total_sec, n_chunks, idx,
              vocal_parts, accomp_parts, tmp, tmp_created, out_dir, out_dir0,
              log, exit_code, fail>>
venvVars == <<vpc, argv, args_venv, environ, venv_exists, python_exists,
              execs, rest, pos, form>>
vars == <<mainVars, venvVars>>

\* ------------------------------------------------------------------ bounds
Scale == 2          \* total_sec is counted in half seconds
MaxD == 5           \* largest probed duration, in units of 1/Scale s
MaxChunk == 2       \* largest chunk size, seconds
NegChunk == 1       \* chunk sizes down to -NegChunk are accepted
MaxExec == 3        \* cap on counted relaunches
MaxRest == 2        \* length of the command line besides the venv option

\* ------------------------------------------------------- paths and files
Absent == [kind |-> "absent", lines |-> <<>>]
UserFile == [kind |-> "user", lines |-> <<>>]
Audio == [kind |-> "audio", lines |-> <<>>]
Manifest(lines) == [kind |-> "manifest", lines |-> lines]

\* out_dir / f"{in_path.stem}_vocals.wav" etc.
final_vocals == [base |-> "_vocals", suffix |-> ".wav"]
final_accomp == [base |-> "_accompaniment", suffix |-> ".wav"]
FinalOf(kind) == IF kind = "vocals" THEN final_vocals ELSE final_accomp

\* Path.with_suffix
with_suffix(path, s) == [path EXCEPT !.suffix = s]

OutNames == { [base |-> b, suffix |-> s] : b \in {"_vocals", "_accompaniment"},
                                            s \in {".wav", ".txt"} }
            \cup { [base |-> "notes", suffix |-> ".txt"] }

\* stem_dir / "vocals.wav", stem_dir / "accompaniment.wav" of chunk i
vocal_file(i) == [chunk |-> i, name |-> "vocals.wav"]
accomp_file(i) == [chunk |-> i, name |-> "accompaniment.wav"]

EmptyTmp == [root |-> FALSE, dirs |-> {}, files |-> {}]

\* ------------------------------------------------------------- helpers
\* math.ceil(a / b) for b # 0, exact
CeilDiv(a, b) == IF b > 0 THEN -((-a) \div b) ELSE -(a \div (-b))

PlanFloor(total, c) == IF c > 0 THEN total \div (Scale * c)
                       ELSE (-total) \div (Scale * (-c))
\* n_chunks = math.ceil(total_sec / args.chunk)
Plan(total, c) == CeilDiv(total, Scale * c)

OffsetNext(i, c) == (i + 1) * c
\* offset = idx * args.chunk
Offset(i, c) == i * c

RaisesNever(rc) == FALSE
\* run(): raise CalledProcessError if proc.returncode
Raises(rc) == rc # 0

ManifestLinesReversed(wav_list) ==
    [k \in 1..Len(wav_list) |->
        [prefix |-> "file '", path |-> wav_list[Len(wav_list) + 1 - k],
         suffix |-> "'\n"]]
\* for w in wav_list: f.write(f"file '{w.as_posix()}'\n")
ManifestLines(wav_list) ==
    [k \in 1..Len(wav_list) |->
        [prefix |-> "file '", path |-> wav_list[k], suffix |-> "'\n"]]

ExitKeepsOnError(raised, t) == IF raised THEN t ELSE EmptyTmp
\* TemporaryDirectory.__exit__: the with-block removes the tree however
\* the block is left (normal end, exception, SystemExit)
TempDirExit(raised, t) == EmptyTmp

UnlinkUnlessRaised(raised, d, name) ==
    IF raised THEN d ELSE [d EXCEPT ![name] = Absent]
\* finally: concat_file.unlink(missing_ok=True)
FinallyUnlink(raised, d, name) == [d EXCEPT ![name] = Absent]

LogEntry(tool, i, off, dur, lines, rc) ==
    [tool |-> tool, idx |-> i, offset |-> off, duration |-> dur,
     manifest |-> lines, rc |-> rc]

\* ---------------------------------------------------------------- main()
MainInit ==
    /\ pc = "start"
    /\ chunk \in (-NegChunk)..MaxChunk
    /\ keep_temp \in BOOLEAN
    /\ input_exists \in BOOLEAN
    /\ total_sec = 0
    /\ n_chunks = 0
    /\ idx = 0
    /\ vocal_parts = <<>>
    /\ accomp_parts = <<>>
    /\ tmp = EmptyTmp
    /\ tmp_created = FALSE
    /\ out_dir \in [OutNames -> {Absent, UserFile}]
    /\ out_dir0 = out_dir
    /\ log = <<>>
    /\ exit_code = -1
    /\ fail = "none"

\* out_dir.mkdir(...); if not in_path.exists(): sys.exit(...)
Start ==
    /\ pc = "start"
    /\ IF input_exists
       THEN /\ pc' = "probe"
            /\ UNCHANGED <<exit_code, fail>>
       ELSE /\ pc' = "failed"
            /\ exit_code' = 1
            /\ fail' = "no_input"
    /\ UNCHANGED <<chunk, keep_temp, input_exists, total_sec, n_chunks, idx,
                   vocal_parts, accomp_parts, tmp, tmp_created, out_dir,
                   out_dir0, log>>

\* total_sec = get_duration_sec(in_path)
Probe ==
    /\ pc = "probe"
    /\ \E rc \in {0, 1}, d \in 0..MaxD :
        /\ log' = Append(log, LogEntry("ffprobe", -1, 0, 0, <<>>, rc))
        /\ IF Raises(rc)
           THEN /\ pc' = "failed"
                /\ exit_code' = 1
                /\ fail' = "probe"
                /\ UNCHANGED total_sec
           ELSE /\ pc' = "plan"
                /\ total_sec' = d
                /\ UNCHANGED <<exit_code, fail>>
    /\ UNCHANGED <<chunk, keep_temp, input_exists, n_chunks, idx,
                   vocal_parts, accomp_parts, tmp, tmp_created, out_dir,
                   out_dir0>>

\* n_chunks = math.ceil(total_sec / args.chunk); entering the with-block
PlanChunks ==
    /\ pc = "plan"
    /\ IF chunk = 0
       THEN /\ pc' = "failed"          \* ZeroDivisionError
            /\ exit_code' = 1
            /\ fail' = "zero_division"
            /\ UNCHANGED <<n_chunks, tmp, tmp_created, vocal_parts,
                           accomp_parts, idx>>
       ELSE /\ n_chunks' = Plan(total_sec, chunk)
            /\ tmp' = [root |-> TRUE, dirs |-> {}, files |-> {}]
            /\ tmp_created' = TRUE
            /\ vocal_parts' = <<>>
            /\ accomp_parts' = <<>>
            /\ idx' = 0
            /\ pc' = "loop"
            /\ UNCHANGED <<exit_code, fail>>
    /\ UNCHANGED <<chunk, keep_temp, input_exists, total_sec, out_dir,
                   out_dir0, log>>

\* one iteration of: for idx in range(n_chunks)
Separate ==
    /\ pc = "loop"
    /\ idx < n_chunks
    /\ \E rc \in {0, 1}, wroteVocals \in BOOLEAN, wroteAccomp \in BOOLEAN :
        LET made == [tmp EXCEPT
                       !.dirs = @ \cup {idx},
                       !.files = @ \cup (IF wroteVocals THEN {vocal_file(idx)} ELSE {})
                                   \cup (IF wroteAccomp THEN {accomp_file(idx)} ELSE {})]
        IN
        /\ log' = Append(log, LogEntry("spleeter", idx, Offset(idx, chunk),
                                       chunk, <<>>, rc))
        /\ IF Raises(rc)
           THEN /\ pc' = "failed"
                /\ exit_code' = 1
                /\ fail' = "separate"
                /\ tmp' = TempDirExit(TRUE, made)
                /\ UNCHANGED <<idx, vocal_parts, accomp_parts>>
           ELSE IF vocal_file(idx) \notin made.files
           THEN /\ pc' = "failed"      \* sys.exit(f"Missing {vocal_file}")
                /\ exit_code' = 1
                /\ fail' = "missing_stem"
                /\ tmp' = TempDirExit(TRUE, made)
                /\ UNCHANGED <<idx, vocal_parts, accomp_parts>>
           ELSE /\ vocal_parts' = Append(vocal_parts, vocal_file(idx))
                /\ accomp_parts' = Append(accomp_parts, accomp_file(idx))
                /\ idx' = idx + 1
                /\ tmp' = made
                /\ UNCHANGED <<pc, exit_code, fail>>
    /\ UNCHANGED <<chunk, keep_temp, input_exists, total_sec, n_chunks,
                   tmp_created, out_dir, out_dir0>>

PartsOf(kind) == IF kind = "vocals" THEN vocal_parts ELSE accomp_parts

\* ffmpeg_concat, first half: the manifest is written
WriteManifest(kind) ==
    /\ \/ kind = "vocals" /\ pc = "loop" /\ idx >= n_chunks
       \/ kind = "accomp" /\ pc = "concat_accomp"
    /\ out_dir' = [out_dir EXCEPT ![with_suffix(FinalOf(kind), ".txt")] =
                       Manifest(ManifestLines(PartsOf(kind)))]
    /\ pc' = IF kind = "vocals" THEN "ffmpeg_vocals" ELSE "ffmpeg_accomp"
    /\ UNCHANGED <<chunk, keep_temp, input_exists, total_sec, n_chunks, idx,
                   vocal_parts, accomp_parts, tmp, tmp_created, out_dir0,
                   log, exit_code, fail>>

\* ffmpeg_concat, second half: try: run(ffmpeg ...) finally: unlink; and,
\* after the second concatenation, the end of main
RunFfmpeg(kind) ==
    /\ \/ kind = "vocals" /\ pc = "ffmpeg_vocals"
       \/ kind = "accomp" /\ pc = "ffmpeg_accomp"
    /\ \E rc \in {0, 1}, wrote \in BOOLEAN :
        LET concat_file == with_suffix(FinalOf(kind), ".txt")
            written == IF rc = 0 \/ wrote
                       THEN [out_dir EXCEPT ![FinalOf(kind)] = Audio]
                       ELSE out_dir
        IN
        /\ rc = 0 => wrote
        /\ log' = Append(log, LogEntry("ffmpeg_" \o kind, -1, 0, 0,
                                       out_dir[concat_file].lines, rc))
        /\ out_dir' = FinallyUnlink(Raises(rc), written, concat_file)
        /\ IF Raises(rc)
           THEN /\ pc' = "failed"
                /\ exit_code' = 1
                /\ fail' = "concat"
                /\ tmp' = TempDirExit(TRUE, tmp)
           ELSE IF kind = "vocals"
           THEN /\ pc' = "concat_accomp"
                /\ UNCHANGED <<exit_code, fail, tmp>>
           ELSE /\ pc' = "done"
                /\ exit_code' = 0
                /\ tmp' = TempDirExit(FALSE, tmp)
                /\ UNCHANGED fail
    /\ UNCHANGED <<chunk, keep_temp, input_exists, total_sec, n_chunks, idx,
                   vocal_parts, accomp_parts, tmp_created, out_dir0>>

\* ------------------------------------------------- command-line tokens
\* A token is the sequence of its characters, so that startswith is computed.
Script == <<"s", ".", "p", "y">>
LongFlag == <<"-", "-", "v", "e", "n", "v">>
ShortFlag == <<"-", "V">>
LongEq == LongFlag \o <<"=">>
PathX == <<"/", "x">>
PathY == <<"/", "y">>
None == <<>>
InputTok == <<"i", "n">>
KeepTok == <<"-", "-", "k", "e", "e", "p", "-", "t", "e", "m", "p">>
ChunkTok == <<"-", "c">>
NumTok == <<"3">>

\* the other options of the parser, each with its value
Units == { <<InputTok>>, <<KeepTok>>, <<ChunkTok, NumTok>> }
Forms == {"none", "long_sep", "long_eq", "short_sep", "short_attached"}

\* the forms in which the parser accepts -V/--venv with value v
OptionTokens(f, v) ==
    CASE f = "long_sep" -> <<LongFlag, v>>
      [] f = "long_eq" -> <<LongEq \o v>>
      [] f = "short_sep" -> <<ShortFlag, v>>
      [] f = "short_attached" -> <<ShortFlag \o v>>
      [] OTHER -> <<>>

\* sys.argv of a launch: script, then r with the venv option put after r[p]
Compose(r, p, f) ==
    <<Script>> \o SubSeq(r, 1, p) \o OptionTokens(f, PathX) \o SubSeq(r, p + 1, Len(r))

RECURSIVE Flatten(_)
Flatten(us) == IF us = <<>> THEN <<>> ELSE Head(us) \o Flatten(Tail(us))

\* str.startswith
StartsWith(t, p) == Len(t) >= Len(p) /\ SubSeq(t, 1, Len(p)) = p

Drop(t, n) == SubSeq(t, n + 1, Len(t))

\* args.venv as p.parse_args() computes it from sys.argv[1:]
RECURSIVE ParseFrom(_, _, _)
ParseFrom(a, i, found) ==
    IF i > Len(a) THEN found
    ELSE IF a[i] \in {LongFlag, ShortFlag} /\ i + 1 <= Len(a)
         THEN ParseFrom(a, i + 2, a[i + 1])
    ELSE IF StartsWith(a[i], LongEq)
         THEN ParseFrom(a, i + 1, Drop(a[i], Len(LongEq)))
    ELSE IF StartsWith(a[i], ShortFlag) /\ Len(a[i]) > Len(ShortFlag)
         THEN ParseFrom(a, i + 1, Drop(a[i], Len(ShortFlag)))
    ELSE ParseFrom(a, i + 1, found)
ParseVenv(a) == ParseFrom(a, 2, None)

RECURSIVE FilterSkipAttached(_, _, _, _)
FilterSkipAttached(a, i, skip_next, new_argv) ==
    IF i > Len(a) THEN new_argv
    ELSE IF skip_next THEN FilterSkipAttached(a, i + 1, FALSE, new_argv)
    ELSE IF a[i] \in {LongFlag, ShortFlag}
         THEN FilterSkipAttached(a, i + 1,
                  i + 1 <= Len(a) /\ ~StartsWith(a[i + 1], <<"-">>), new_argv)
    ELSE IF StartsWith(a[i], LongEq)
         THEN FilterSkipAttached(a, i + 1,
                  i + 1 <= Len(a) /\ ~StartsWith(a[i + 1], <<"-">>), new_argv)
    ELSE FilterSkipAttached(a, i + 1, FALSE, Append(new_argv, a[i]))
\* the loop "for i, token in enumerate(sys.argv)" building new_argv
RECURSIVE FilterFrom(_, _, _, _)
FilterFrom(a, i, skip_next, new_argv) ==
    IF i > Len(a) THEN new_argv
    ELSE IF skip_next THEN FilterFrom(a, i + 1, FALSE, new_argv)
    ELSE IF a[i] \in {LongFlag, ShortFlag}
         THEN FilterFrom(a, i + 1,
                  i + 1 <= Len(a) /\ ~StartsWith(a[i + 1], <<"-">>), new_argv)
    ELSE IF StartsWith(a[i], LongEq)
         THEN FilterFrom(a, i + 1, FALSE, new_argv)
    ELSE FilterFrom(a, i + 1, FALSE, Append(new_argv, a[i]))
FilterArgv(a) == FilterFrom(a, 1, FALSE, <<>>)

\* ------------------------------------------------ start-up of the process
VenvInit ==
    /\ vpc = "parse"
    /\ \E n \in 1..MaxRest : \E us \in [1..n -> Units] :
          /\ Cardinality({k \in 1..n : us[k] = <<InputTok>>}) = 1
          /\ rest = Flatten(us)
          /\ \E q \in 0..n : pos = Len(Flatten(SubSeq(us, 1, q)))
    /\ form \in Forms
    /\ argv = Compose(rest, pos, form)
    /\ args_venv = None
    /\ environ \in {None, PathX, PathY}
    /\ venv_exists \in BOOLEAN
    /\ python_exists \in BOOLEAN
    /\ python_exists => venv_exists
    /\ execs = 0

\* args = p.parse_args()
ParseArgs ==
    /\ vpc = "parse"
    /\ args_venv' = ParseVenv(argv)
    /\ vpc' = "check"
    /\ UNCHANGED <<argv, environ, venv_exists, python_exists, execs, rest,
                   pos, form>>

\* if args.venv: maybe_reexec_in_venv(args.venv)
MaybeReexec ==
    /\ vpc = "check"
    /\ IF args_venv = None
       THEN /\ vpc' = "main"
            /\ UNCHANGED <<argv, execs>>
       ELSE IF ~venv_exists \/ ~python_exists
       THEN /\ vpc' = "exit"
            /\ UNCHANGED <<argv, execs>>
       ELSE IF environ = args_venv
       THEN /\ vpc' = "main"
            /\ UNCHANGED <<argv, execs>>
       ELSE /\ execs < MaxExec
            /\ argv' = FilterArgv(argv)      \* os.execv(venv_python, cmd)
            /\ execs' = execs + 1
            /\ vpc' = "parse"
    /\ UNCHANGED <<args_venv, environ, venv_exists, python_exists, rest, pos,
                   form>>

MainIdle ==
    /\ pc = "start"
    /\ chunk = 1
    /\ keep_temp = FALSE
    /\ input_exists = TRUE
    /\ total_sec = 0
    /\ n_chunks = 0
    /\ idx = 0
    /\ vocal_parts = <<>>
    /\ accomp_parts = <<>>
    /\ tmp = EmptyTmp
    /\ tmp_created = FALSE
    /\ out_dir = [n \in OutNames |-> Absent]
    /\ out_dir0 = out_dir
    /\ log = <<>>
    /\ exit_code = -1
    /\ fail = "none"

InitVenv == VenvInit /\ MainIdle

NextVenv ==
    /\ \/ ParseArgs
       \/ MaybeReexec
    /\ UNCHANGED mainVars

SpecVenv == InitVenv /\ [][NextVenv]_vars

VenvIdle ==
    /\ vpc = "main"
    /\ argv = <<>>
    /\ args_venv = None
    /\ environ = None
    /\ venv_exists = FALSE
    /\ python_exists = FALSE
    /\ execs = 0
    /\ rest = <<>>
    /\ pos = 0
    /\ form = "none"

Init == MainInit /\ VenvIdle

Next ==
    /\ \/ Start
       \/ Probe
       \/ PlanChunks
       \/ Separate
       \/ \E kind \in {"vocals", "accomp"} : WriteManifest(kind)
       \/ \E kind \in {"vocals", "accomp"} : RunFfmpeg(kind)
    /\ UNCHANGED venvVars

Spec == Init /\ [][Next]_vars

\* ================================================================ claims
Max0(n) == IF n > 0 THEN n ELSE 0
Seps == SelectSeq(log, LAMBDA e : e.tool = "spleeter")
Concats == SelectSeq(log, LAMBDA e : e.tool \in {"ffmpeg_vocals", "ffmpeg_accomp"})
ReachedConcat ==
    \/ pc \in {"ffmpeg_vocals", "concat_accomp", "ffmpeg_accomp", "done"}
    \/ fail = "concat"
Finished == pc \in {"done", "failed"}

\* C1: the k-th separation invocation is for chunk k-1 with offset
\* (k-1)*chunk and duration chunk; and once every separation has returned,
\* for a probed duration D > 0 and a chunk size C > 0, the number N of
\* invocations is ceil(D/C), i.e. (N-1)*C < D <= N*C.
C1_ChunkPlan ==
    /\ \A k \in 1..Len(Seps) :
          /\ Seps[k].idx = k - 1
          /\ Seps[k].offset = (k - 1) * chunk
          /\ Seps[k].duration = chunk
    /\ (ReachedConcat /\ total_sec > 0 /\ chunk > 0) =>
          /\ (Len(Seps) - 1) * chunk * Scale < total_sec
          /\ total_sec <= Len(Seps) * chunk * Scale
C1_Witness ==
    /\ pc = "done"
    /\ total_sec = 5 /\ chunk = 1
    /\ Len(Seps) = 3
    /\ Seps[3].offset = 2

\* C2: in a run that reaches concatenation, both stem lists hold one
\* entry per chunk, entry k being the stem of chunk k, and every manifest
\* (the file while it exists, and the one handed to the media tool) lists
\* those files in that same order.
C2_StemOrder ==
    ReachedConcat =>
        /\ vocal_parts = [k \in 1..Max0(n_chunks) |-> vocal_file(k - 1)]
        /\ accomp_parts = [k \in 1..Max0(n_chunks) |-> accomp_file(k - 1)]
        /\ \A i \in 1..Len(log) :
              /\ log[i].tool = "ffmpeg_vocals" =>
                    /\ Len(log[i].manifest) = Len(vocal_parts)
                    /\ \A k \in 1..Len(vocal_parts) :
                          log[i].manifest[k].path = vocal_file(k - 1)
              /\ log[i].tool = "ffmpeg_accomp" =>
                    /\ Len(log[i].manifest) = Len(accomp_parts)
                    /\ \A k \in 1..Len(accomp_parts) :
                          log[i].manifest[k].path = accomp_file(k - 1)
        /\ pc = "ffmpeg_vocals" =>
              \A k \in 1..Len(vocal_parts) :
                  out_dir[with_suffix(final_vocals, ".txt")].lines[k].path
                      = vocal_file(k - 1)
C2_Witness ==
    /\ pc = "done"
    /\ n_chunks = 3
    /\ Len(Concats) = 2
    /\ Len(Concats[2].manifest) = 3

Rank(e) ==
    CASE e.tool = "ffprobe" -> 1
      [] e.tool = "spleeter" -> 2 + e.idx
      [] e.tool = "ffmpeg_vocals" -> 2 + Max0(n_chunks)
      [] e.tool = "ffmpeg_accomp" -> 3 + Max0(n_chunks)
      [] OTHER -> 0

\* C3: the external commands run in the order probe, separation of chunk
\* 0..N-1, foreground concatenation, background concatenation, each once;
\* only the last command run may have failed, and then the run has ended
\* with a non-zero exit status; after a failing separation or a missing
\* foreground stem at chunk k nothing ran after the separation of chunk k.
C3_Sequential ==
    /\ \A i \in 1..Len(log) : Rank(log[i]) = i
    /\ \A i \in 1..(Len(log) - 1) : log[i].rc = 0
    /\ (log # <<>> /\ log[Len(log)].rc # 0) => (pc = "failed" /\ exit_code # 0)
    /\ fail \in {"separate", "missing_stem"} =>
          /\ pc = "failed" /\ exit_code # 0
          /\ Concats = <<>>
          /\ log[Len(log)].tool = "spleeter"
          /\ log[Len(log)].idx = idx
          /\ \A k \in 1..Len(Seps) : Seps[k].idx <= idx
C3_Witness ==
    /\ fail = "separate"
    /\ idx = 1
    /\ n_chunks = 3
    /\ Len(log) = 3

\* C4 (as claimed): after a successful run the temporary root and the
\* per-chunk directories exist if and only if --keep-temp was given.
C4_KeepTempPreserves ==
    pc = "done" =>
        (keep_temp <=> (tmp.root /\ \A i \in 0..(n_chunks - 1) : i \in tmp.dirs))

\* C5 (as claimed): when the run fails after the temporary root was
\* created, the root and every per-chunk directory created so far exist.
C5_NoCleanupOnFailure ==
    (pc = "failed" /\ tmp_created) =>
        (tmp.root /\ \A k \in 1..Len(Seps) : Seps[k].idx \in tmp.dirs)

\* C5 (amended): when the run fails after the temporary root was created,
\* the with-block has removed the root and everything under it.
C5_FailureRemovesTemp ==
    (pc = "failed" /\ tmp_created) => tmp = EmptyTmp
C5_Witness ==
    /\ pc = "failed"
    /\ tmp_created
    /\ fail = "missing_stem"
    /\ Len(Seps) = 2

\* C6: once a call of ffmpeg_concat has completed, with exit status zero
\* or not, the manifest file it wrote does not exist.
C6_ManifestRemoved ==
    \A i \in 1..Len(log) :
        /\ log[i].tool = "ffmpeg_vocals" =>
              out_dir[with_suffix(final_vocals, ".txt")] = Absent
        /\ log[i].tool = "ffmpeg_accomp" =>
              out_dir[with_suffix(final_accomp, ".txt")] = Absent
C6_Witness ==
    /\ fail = "concat"
    /\ Len(Concats) = 2
    /\ Concats[2].rc # 0
    /\ Len(Concats[2].manifest) = 2

\* C7 (as claimed): the process image is replaced at most once, and not
\* at all when the marker already equals the target path.
C7_AtMostOneRelaunch ==
    /\ execs <= 1
    /\ (form # "none" /\ environ = PathX) => execs = 0

\* C8: the separate-token form and the attached form of --venv, put at the
\* same place of the same command line, are filtered to the same list,
\* which is the command line without the option; and that list is what
\* the relaunched process gets.
C8_FilterFormsAgree ==
    /\ FilterArgv(Compose(rest, pos, "long_sep"))
          = FilterArgv(Compose(rest, pos, "long_eq"))
    /\ FilterArgv(Compose(rest, pos, "long_sep")) = <<Script>> \o rest
    /\ (execs >= 1 /\ form \in {"long_sep", "long_eq"}) =>
          argv = <<Script>> \o rest
C8_Witness ==
    /\ execs = 1
    /\ form = "long_eq"
    /\ pos > 0 /\ pos < Len(rest)
    /\ argv = <<Script>> \o rest

\* C9 (as claimed): every concatenation is invoked with at least one
\* chunk and a manifest of at least one entry.
C9_NeverEmptyConcat ==
    \A i \in 1..Len(log) :
        log[i].tool \in {"ffmpeg_vocals", "ffmpeg_accomp"} =>
            (n_chunks >= 1 /\ Len(log[i].manifest) >= 1)

\* C10 (as claimed): when the run has ended, every file of the output
\* directory other than the two final files is as it was before the run.
C10_OutputDirFrame ==
    Finished =>
        \A name \in OutNames \ {final_vocals, final_accomp} :
            out_dir[name] = out_dir0[name]
====
